---- MODULE Spec2Model ----
(***************************************************************************)
(* Model of the FDD analysis engine (fiscal-period detection and           *)
(* aggregation, variation, materiality, priority, anonymisation, question  *)
(* synthesis with fallback, report assembly) as documented in docs/ of the *)
(* repository, and of the pages of the frontend (dashboard, analytics,     *)
(* audit, upload and application start).                                   *)
(***************************************************************************)
EXTENDS Integers, Sequences, FiniteSets, TLC

VARIABLES
    pc,             \* stage of the run
    config,         \* thresholds and focus lists of the run
    operands,       \* account code, period pair, value_base, value_compare
    variation,      \* result of calculate_variation
    qa_item,        \* result of the classifier for the operands
    anon,           \* object returned by DataAnonymizer.anonymize
    strict_mode,    \* DataAnonymizer(strict_mode=...)
    columns,        \* column labels of the input table, in input order
    row,            \* one account row: its value under each column
    plan,           \* result of detect_fiscal_periods
    aggregated,     \* period key -> sum, the row after aggregate_by_period
    table,          \* (account code, period pair) -> <<value_base, value_compare>>
    pending,        \* evaluations not yet completed
    collected,      \* accepted results, in completion order
    report,         \* category -> sequence of QAItem
    outcomes,       \* account code -> outcome of its generator call
    general,        \* the control points of the sheet "General" of the report
    previous,       \* order and priorities of the report of the first run
    activeFile,     \* store: the active file, or None
    auditReport,    \* AuditPage: report state (its items), or None
    drafts,         \* AuditPage: itemKey -> draft edits
    saves,          \* AuditPage: updateReportItem calls in flight
    stored,         \* the report as the server stores it
    edits,          \* AuditPage: number of file changes, edits and saves so far
    loads,          \* AuditPage: ids of the files whose getReport call is in flight
    auditLoading,   \* AuditPage: loading flag
    auditError,     \* AuditPage: error message, or null
    shownFor,       \* id of the file whose getReport response was last applied
    draftFile,      \* itemKey -> id of the file whose report the draft was typed on
    selectedFile,   \* DataPage: selected file, or None
    fileError,      \* DataPage: file error message
    processing,     \* DataPage: processing flag
    success,        \* DataPage: success flag
    resultMessage,  \* DataPage: message of the last result
    processCall,    \* DataPage: the files of the processDocument calls in flight
    succeededFor,   \* DataPage: the file of the last call that returned success, or None
    appLoading,     \* store: loading flag
    appError,       \* store: error, or None
    files,          \* store: documents added by addFile
    picks,          \* DataPage: number of files chosen or dropped so far
    displayed,      \* the KPI counts last rendered by Dashboard or AnalyticsPage
    storeConfig,    \* store: the thresholds of the configuration form
    entered,        \* DataPage: the threshold input last changed and its text
    mounted,        \* the components whose load effect has run
    historyCalls    \* the components whose getHistory call is in flight

varsVar == <<config, operands, variation, qa_item>>
varsPeriods == <<columns, row, plan, aggregated>>
varsAnon == <<anon, strict_mode>>
varsReport == <<table, pending, collected, report, outcomes, general, previous>>
varsEngine == <<varsVar, varsAnon, varsPeriods, varsReport>>
varsAudit == <<activeFile, auditReport, drafts, saves, stored, edits,
               loads, auditLoading, auditError, shownFor, draftFile>>
varsData == <<selectedFile, fileError, processing, success, resultMessage,
              processCall, succeededFor, appLoading, appError, files, picks>>
varsKpi == <<displayed>>
varsConfig == <<storeConfig, entered>>
varsBoot == <<mounted, historyCalls>>
varsUI == <<varsAudit, varsData, varsKpi, varsConfig, varsBoot>>
vars == <<pc, config, operands, variation, qa_item, anon, strict_mode, columns, row, plan, aggregated,
         table, pending, collected, report, outcomes, general, previous,
         varsAudit, varsData, displayed, storeConfig, entered, mounted, historyCalls>>

None == [none |-> TRUE]

Undefined == "undefined"
Null == "null"

\* no file: the ids of the files are positive
NoFile == 0

\* the audit page is not open
AuditIdle ==
    /\ activeFile = None /\ auditReport = None /\ drafts = None /\ saves = {}
    /\ stored = None /\ edits = 0
    /\ loads = {} /\ auditLoading = FALSE /\ auditError = Null
    /\ shownFor = NoFile /\ draftFile = None

\* the pages of the frontend are not open
UIIdle ==
    /\ AuditIdle
    /\ selectedFile = None /\ fileError = "" /\ processing = FALSE
    /\ success = FALSE /\ resultMessage = "" /\ processCall = <<>>
    /\ succeededFor = None
    /\ appLoading = FALSE /\ appError = None /\ files = <<>> /\ picks = 0
    /\ displayed = None
    /\ mounted = {} /\ historyCalls = {}
    /\ storeConfig = None /\ entered = None

(***************************************************************************)
(* Python floats: NaN or an exact rational num/den (den > 0, lowest terms).*)
(* Rounding of IEEE doubles is not modelled.                               *)
(***************************************************************************)
RECURSIVE GCD(_, _)
GCD(a, b) == IF b = 0 THEN a ELSE GCD(b, a % b)

AbsInt(n) == IF n < 0 THEN -n ELSE n

NaN == [nan |-> TRUE, num |-> 0, den |-> 1]

Rat(n, d) ==
    LET g == GCD(AbsInt(n), d)
    IN  IF n = 0 THEN [nan |-> FALSE, num |-> 0, den |-> 1]
        ELSE [nan |-> FALSE,
              num |-> (IF n < 0 THEN -1 ELSE 1) * (AbsInt(n) \div g),
              den |-> d \div g]

Num(n) == Rat(n, 1)

IsNaN(x) == x.nan

\* a - b
Sub(a, b) ==
    IF a.nan \/ b.nan THEN NaN
    ELSE Rat(a.num * b.den - b.num * a.den, a.den * b.den)

\* a * b
Mul(a, b) ==
    IF a.nan \/ b.nan THEN NaN
    ELSE Rat(a.num * b.num, a.den * b.den)

\* a / b, only applied where b is not zero
Div(a, b) ==
    IF a.nan \/ b.nan THEN NaN
    ELSE Rat((IF b.num < 0 THEN -1 ELSE 1) * a.num * b.den, a.den * AbsInt(b.num))

\* abs(a)
Abs(a) == IF a.nan THEN NaN ELSE [a EXCEPT !.num = AbsInt(a.num)]

\* every comparison with NaN is False
Eq(a, b) == ~a.nan /\ ~b.nan /\ a.num * b.den = b.num * a.den
Gt(a, b) == ~a.nan /\ ~b.nan /\ a.num * b.den > b.num * a.den
Geq(a, b) == ~a.nan /\ ~b.nan /\ a.num * b.den >= b.num * a.den

\* max(a, b): the first argument unless the second compares greater
Max(a, b) == IF Gt(b, a) THEN b ELSE a

(***************************************************************************)
(* Inputs of one (account row x period pair) evaluation.                   *)
(***************************************************************************)
MaxUnits == 2

\* amounts of the documented scenarios, a grid around zero, and NaN
ScenarioAmounts == {-20000, 80000, 102000, 150000}
Amounts ==
    {Num(n) : n \in ScenarioAmounts \cup {k * 50000 : k \in -MaxUnits..MaxUnits}}
        \cup {NaN}

AccountCodes == {2000001, 6000001, 7000001}
PeriodPairs == {<<"FY23", "FY24">>, <<"YTD24", "YTD25">>}

\* documented fallbacks of the three thresholds
DefaultThresholdPct == 10
DefaultThresholdAbs == 50000
DefaultMinValue == 100000

Configs ==
    [threshold_pct : {0, DefaultThresholdPct, 20},
     threshold_abs : {0, DefaultThresholdAbs, 100000},
     min_value : {0, DefaultMinValue},
     focus_accounts : {{}, {7000001}},
     focus_period_pairs : {{}, {<<"FY23", "FY24">>}}]

(***************************************************************************)
(* Variation Calculator                                                    *)
(***************************************************************************)
calculate_variation_no_abs(base, compare) ==
    [var_abs |-> Sub(compare, base),
     var_pct |->
        IF Eq(base, Num(0))
        THEN IF Eq(compare, Num(0)) THEN Num(0)
             ELSE IF Gt(compare, Num(0)) THEN Num(100)
             ELSE Num(-100)
        ELSE Mul(Div(Sub(compare, base), base), Num(100))]

calculate_variation(base, compare) ==
    [var_abs |-> Sub(compare, base),
     var_pct |->
        IF Eq(base, Num(0))
        THEN IF Eq(compare, Num(0)) THEN Num(0)
             ELSE IF Gt(compare, Num(0)) THEN Num(100)
             ELSE Num(-100)
        ELSE Mul(Div(Sub(compare, base), Abs(base)), Num(100))]

(***************************************************************************)
(* Materiality Classifier                                                  *)
(***************************************************************************)
valor_max(base, compare) == Max(Abs(base), Abs(compare))

is_material_two_gates(v, base, compare, cfg) ==
    /\ Geq(Abs(v.var_pct), Num(cfg.threshold_pct))
    /\ Geq(Abs(v.var_abs), Num(cfg.threshold_abs))

is_material_no_pct_gate(v, base, compare, cfg) ==
    /\ Geq(Abs(v.var_abs), Num(cfg.threshold_abs))
    /\ Geq(valor_max(base, compare), Num(cfg.min_value))

is_material(v, base, compare, cfg) ==
    /\ Geq(Abs(v.var_pct), Num(cfg.threshold_pct))
    /\ Geq(Abs(v.var_abs), Num(cfg.threshold_abs))
    /\ Geq(valor_max(base, compare), Num(cfg.min_value))

\* asset-type accounts, by code range
AssetCodeLo == 2000000
AssetCodeHi == 2999999
IsAssetAccount(code) == AssetCodeLo <= code /\ code <= AssetCodeHi

\* an asset account with a credit (negative) balance
SignAnomaly(code, base, compare) ==
    IsAssetAccount(code) /\ (Gt(Num(0), base) \/ Gt(Num(0), compare))

\* focus: accounts or period pairs the caller forces
FocusForced_accounts_only(code, pair, cfg) == code \in cfg.focus_accounts

FocusForced(code, pair, cfg) ==
    code \in cfg.focus_accounts \/ pair \in cfg.focus_period_pairs

NewAccount(base, compare) ==
    Eq(base, Num(0)) /\ ~IsNaN(compare) /\ ~Eq(compare, Num(0))

DisappearedAccount(base, compare) ==
    Eq(compare, Num(0)) /\ ~IsNaN(base) /\ ~Eq(base, Num(0))

Tags(code, pair, base, compare, cfg) ==
    (IF FocusForced(code, pair, cfg) THEN {"forced"} ELSE {})
        \cup (IF SignAnomaly(code, base, compare) THEN {"sign-anomaly"} ELSE {})
        \cup (IF NewAccount(base, compare) THEN {"new-account"} ELSE {})
        \cup (IF DisappearedAccount(base, compare)
              THEN {"disappeared-account"} ELSE {})

AssignPriority_no_tags(v, tags, cfg) ==
    IF Geq(Abs(v.var_pct), Num(2 * cfg.threshold_pct)) THEN "Alta"
    ELSE IF Geq(Abs(v.var_pct), Num(cfg.threshold_pct)) THEN "Media"
    ELSE "Baja"

AssignPriority(v, tags, cfg) ==
    IF \/ Geq(Abs(v.var_pct), Num(2 * cfg.threshold_pct))
       \/ tags \cap {"sign-anomaly", "new-account", "disappeared-account"} # {}
    THEN "Alta"
    ELSE IF Geq(Abs(v.var_pct), Num(cfg.threshold_pct)) THEN "Media"
    ELSE "Baja"

NewAccountForced_needs_abs(tags, base, compare, cfg) ==
    /\ "new-account" \in tags
    /\ Geq(valor_max(base, compare), Num(cfg.min_value))
    /\ Geq(Abs(Sub(compare, base)), Num(cfg.threshold_abs))

\* a new account is included whenever its size reaches min_value
NewAccountForced(tags, base, compare, cfg) ==
    /\ "new-account" \in tags
    /\ Geq(valor_max(base, compare), Num(cfg.min_value))

Included_no_sign_override(material, tags, base, compare, cfg) ==
    \/ material
    \/ "forced" \in tags
    \/ NewAccountForced(tags, base, compare, cfg)

\* material items plus the deterministic overrides, which ignore the thresholds
Included(material, tags, base, compare, cfg) ==
    \/ material
    \/ "forced" \in tags
    \/ "sign-anomaly" \in tags
    \/ NewAccountForced(tags, base, compare, cfg)

ClassifyItem(op, v, cfg) ==
    LET material == is_material(v, op.value_base, op.value_compare, cfg)
        tags == Tags(op.account_code, <<op.period_base, op.period_compare>>,
                     op.value_base, op.value_compare, cfg)
    IN  [account_code |-> op.account_code,
         material |-> material,
         tags |-> tags,
         included |-> Included(material, tags, op.value_base, op.value_compare, cfg),
         priority |-> AssignPriority(v, tags, cfg)]

(***************************************************************************)
(* One evaluation: inputs drawn at Init, variation, then classification.   *)
(***************************************************************************)
InitVar ==
    /\ pc = "start"
    /\ config \in Configs
    /\ \E code \in AccountCodes, pair \in PeriodPairs, b \in Amounts, c \in Amounts :
         operands = [account_code |-> code,
                     period_base |-> pair[1], period_compare |-> pair[2],
                     value_base |-> b, value_compare |-> c]
    /\ variation = None
    /\ qa_item = None
    /\ anon = None /\ strict_mode = TRUE
    /\ columns = <<>> /\ row = <<>> /\ plan = None /\ aggregated = None
    /\ table = None /\ pending = {} /\ collected = <<>> /\ report = None /\ outcomes = None
    /\ general = {} /\ previous = None
    /\ UIIdle

CalculateVariation ==
    /\ pc = "start"
    /\ variation' = calculate_variation(operands.value_base, operands.value_compare)
    /\ pc' = "varied"
    /\ UNCHANGED <<config, operands, qa_item, varsAnon, varsPeriods, varsReport, varsUI>>

Classify ==
    /\ pc = "varied"
    /\ qa_item' = ClassifyItem(operands, variation, config)
    /\ pc' = "classified"
    /\ UNCHANGED <<config, operands, variation, varsAnon, varsPeriods, varsReport, varsUI>>

NextVar == CalculateVariation \/ Classify

SpecVar == InitVar /\ [][NextVar]_vars

(***************************************************************************)
(* Fact Anonymizer: DataAnonymizer.anonymize                               *)
(***************************************************************************)
\* field values of the returned object, by type
Str(x) == [str |-> x]
NumV(x) == [num |-> x]
CodeV(x) == [code |-> x]

Descriptions == {"Ventas a Iberdrola", "Tu descripcion de prueba"}

\* generic category and account type, from the class of the account code
AccountClass(code) ==
    IF IsAssetAccount(code) THEN [generic |-> "Cuenta de activo", type |-> "asset"]
    ELSE IF code >= 7000000 /\ code <= 7999999
         THEN [generic |-> "Cuenta de ingresos", type |-> "income_revenue"]
    ELSE IF code >= 6000000 /\ code <= 6999999
         THEN [generic |-> "Cuenta de gastos", type |-> "expense"]
    ELSE [generic |-> "Otra cuenta", type |-> "other"]

VariationDirection(pct) == IF Gt(pct, Num(0)) THEN "incremento" ELSE "decremento"

VariationMagnitude(pct) ==
    IF Geq(Abs(pct), Num(30)) THEN "significativo"
    ELSE IF Geq(Abs(pct), Num(10)) THEN "moderado"
    ELSE "leve"

ValueRange(base, compare) ==
    LET m == valor_max(base, compare)
    IN  IF Geq(m, Num(1000000)) THEN "grande"
        ELSE IF Geq(m, Num(100000)) THEN "mediano"
        ELSE "pequeno"

PrioritySuggested(pct) ==
    IF VariationMagnitude(pct) = "significativo" THEN "alta"
    ELSE IF VariationMagnitude(pct) = "moderado" THEN "media"
    ELSE "baja"

\* the fields create_safe_prompt reads
PublicFields(strict, description, code, base, compare, pct, pbase, pcompare) ==
    [category_generic |-> Str(AccountClass(code).generic),
     account_type |-> Str(AccountClass(code).type),
     category_ilv |-> Str(IF strict THEN "" ELSE AccountClass(code).type),
     variation_direction |-> Str(VariationDirection(pct)),
     variation_magnitude |-> Str(VariationMagnitude(pct)),
     variation_percentage |-> NumV(pct),
     value_range |-> Str(ValueRange(base, compare)),
     priority_suggested |-> Str(PrioritySuggested(pct)),
     period_base |-> Str(pbase),
     period_compare |-> Str(pcompare)]

\* the originals the returned object keeps ("quedan locales")
OriginalFields(description, code, base, compare) ==
    [_original_description |-> Str(description),
     _original_value_base |-> NumV(base),
     _original_value_compare |-> NumV(compare),
     _account_code |-> CodeV(code)]

anonymize(strict, description, code, base, compare, pct, pbase, pcompare) ==
    PublicFields(strict, description, code, base, compare, pct, pbase, pcompare)
        @@ OriginalFields(description, code, base, compare)

InitAnon ==
    /\ pc = "start"
    /\ strict_mode \in BOOLEAN
    /\ \E code \in AccountCodes, pair \in PeriodPairs, d \in Descriptions,
          b \in Amounts \ {NaN}, c \in Amounts \ {NaN} :
         operands = [account_code |-> code, description |-> d,
                     period_base |-> pair[1], period_compare |-> pair[2],
                     value_base |-> b, value_compare |-> c]
    /\ config = None /\ variation = None /\ qa_item = None /\ anon = None
    /\ columns = <<>> /\ row = <<>> /\ plan = None /\ aggregated = None
    /\ table = None /\ pending = {} /\ collected = <<>> /\ report = None /\ outcomes = None
    /\ general = {} /\ previous = None
    /\ UIIdle

Anonymize ==
    /\ pc = "varied"
    /\ anon' = anonymize(strict_mode, operands.description, operands.account_code,
                         operands.value_base, operands.value_compare,
                         variation.var_pct,
                         operands.period_base, operands.period_compare)
    /\ pc' = "anonymized"
    /\ UNCHANGED <<config, operands, variation, qa_item, strict_mode, varsPeriods, varsReport, varsUI>>

NextAnon == CalculateVariation \/ Anonymize

SpecAnon == InitAnon /\ [][NextAnon]_vars

(***************************************************************************)
(* Period Detector and Period Aggregator                                   *)
(***************************************************************************)
MonthsPerYear == 12
FirstYear == 2023
MaxStart == 2

\* a column label: a (year, month) period, or a column that matches no pattern
PeriodCol(y, m) == [year |-> y, month |-> m]
OtherCol == [year |-> 0, month |-> 0]
MatchesPattern(col) == col.year # 0

Put(f, k, v) == [x \in (DOMAIN f) \cup {k} |-> IF x = k THEN v ELSE f[x]]
EmptyMap == [x \in {} |-> 0]

RECURSIVE SumCols(_, _)
SumCols(r, cols) ==
    IF cols = <<>> THEN 0 ELSE r[Head(cols)] + SumCols(r, Tail(cols))

Prefix(s, n) == SubSeq(s, 1, IF n < Len(s) THEN n ELSE Len(s))

\* step 1: month_columns[year].append(column), years kept in insertion order
RECURSIVE CollectMonthColumns(_, _, _)
CollectMonthColumns(cols, i, acc) ==
    IF i > Len(cols) THEN acc
    ELSE IF ~MatchesPattern(cols[i]) THEN CollectMonthColumns(cols, i + 1, acc)
    ELSE LET y == cols[i].year
             seen == y \in DOMAIN acc.month_columns
         IN  CollectMonthColumns(cols, i + 1,
                [month_columns |->
                    Put(acc.month_columns, y,
                        (IF seen THEN acc.month_columns[y] ELSE <<>>) \o <<i>>),
                 years |-> IF seen THEN acc.years ELSE Append(acc.years, y)])

IsCompleteYear_eleven(month_cols) == Len(month_cols) >= MonthsPerYear - 1

\* step 2: a year is complete when it has 12 month columns
IsCompleteYear(month_cols) == Len(month_cols) = MonthsPerYear

detect_fiscal_periods(cols) ==
    LET c == CollectMonthColumns(cols, 1, [month_columns |-> EmptyMap, years |-> <<>>])
        complete == SelectSeq(c.years, LAMBDA y : IsCompleteYear(c.month_columns[y]))
        incomplete == SelectSeq(c.years, LAMBDA y : ~IsCompleteYear(c.month_columns[y]))
    IN  [fiscal_years |-> SortSeq(complete, LAMBDA a, b : a < b),
         incomplete_years |-> incomplete,
         month_columns |-> c.month_columns]

FY(y) == [kind |-> "FY", yy |-> y % 100]
YTD(y) == [kind |-> "YTD", yy |-> y % 100]

RECURSIVE AddFY(_, _, _, _)
AddFY(result, r, years, month_columns) ==
    IF years = <<>> THEN result
    ELSE AddFY(Put(result, FY(Head(years)), SumCols(r, month_columns[Head(years)])),
               r, Tail(years), month_columns)

RECURSIVE AddYTD(_, _, _, _)
AddYTD(result, r, years, month_columns) ==
    IF years = <<>> THEN result
    ELSE AddYTD(Put(result, YTD(Head(years)), SumCols(r, month_columns[Head(years)])),
                r, Tail(years), month_columns)

\* the prior year's columns to sum for the YTD comparison with year y
prev_cols(month_columns, y) ==
    Prefix(month_columns[y - 1], Len(month_columns[y]))

RECURSIVE AddPrevYTD(_, _, _, _)
AddPrevYTD(result, r, years, month_columns) ==
    IF years = <<>> THEN result
    ELSE LET y == Head(years)
         IN  AddPrevYTD(
                IF (y - 1) \in DOMAIN month_columns
                THEN Put(result, YTD(y - 1), SumCols(r, prev_cols(month_columns, y)))
                ELSE result,
                r, Tail(years), month_columns)

aggregate_by_period(r, fiscal_years, incomplete_years, month_columns) ==
    AddPrevYTD(
        AddYTD(AddFY(EmptyMap, r, fiscal_years, month_columns),
               r, incomplete_years, month_columns),
        r, incomplete_years, month_columns)

\* input tables: for each year a run of months a..b, in calendar or reverse
\* order, years in either order, optionally one month column twice, optionally
\* a column that is no period; FirstYear is complete or absent
MonthRuns == {a..b : a \in 1..MaxStart, b \in 0..MonthsPerYear}

RECURSIVE SetToSeq(_)
SetToSeq(S) ==
    IF S = {} THEN <<>>
    ELSE LET m == CHOOSE x \in S : \A z \in S : x <= z
         IN  <<m>> \o SetToSeq(S \ {m})

RECURSIVE Reverse(_)
Reverse(s) == IF s = <<>> THEN <<>> ELSE Reverse(Tail(s)) \o <<Head(s)>>

YearCols(y, months, reversed, dup) ==
    LET ms == IF reversed THEN Reverse(SetToSeq(months)) ELSE SetToSeq(months)
        cs == [i \in 1..Len(ms) |-> PeriodCol(y, ms[i])]
    IN  IF dup /\ cs # <<>> THEN cs \o <<cs[1]>> ELSE cs

InputTables ==
    {(IF other THEN <<OtherCol>> ELSE <<>>)
        \o (IF first THEN YearCols(FirstYear, 1..MonthsPerYear, FALSE, FALSE) ELSE <<>>)
        \o (IF yrev
            THEN YearCols(FirstYear + 2, m2, mrev, dup = 2)
                    \o YearCols(FirstYear + 1, m1, mrev, dup = 1)
            ELSE YearCols(FirstYear + 1, m1, mrev, dup = 1)
                    \o YearCols(FirstYear + 2, m2, mrev, dup = 2)) :
        other \in BOOLEAN, first \in BOOLEAN, yrev \in BOOLEAN, mrev \in BOOLEAN,
        dup \in 0..2, m1 \in MonthRuns, m2 \in MonthRuns}

\* row values: 1 under every column, or a weight that tells the months apart
RowPatterns == {"ones", "weights"}
RowOf(cols, pattern) ==
    [i \in 1..Len(cols) |->
        IF ~MatchesPattern(cols[i]) THEN 7
        ELSE IF pattern = "ones" THEN 1
        ELSE (2 ^ (cols[i].month - 1)) * (1 + cols[i].year - FirstYear)]

InitPeriods ==
    /\ pc = "start"
    /\ columns \in InputTables
    /\ \E p \in RowPatterns : row = RowOf(columns, p)
    /\ plan = None
    /\ aggregated = None
    /\ config = None /\ operands = None /\ variation = None /\ qa_item = None
    /\ anon = None /\ strict_mode = TRUE
    /\ table = None /\ pending = {} /\ collected = <<>> /\ report = None /\ outcomes = None
    /\ general = {} /\ previous = None
    /\ UIIdle

DetectFiscalPeriods ==
    /\ pc = "start"
    /\ plan' = detect_fiscal_periods(columns)
    /\ pc' = "detected"
    /\ UNCHANGED <<columns, row, aggregated, varsVar, varsAnon, varsReport, varsUI>>

AggregateByPeriod ==
    /\ pc = "detected"
    /\ aggregated' = aggregate_by_period(row, plan.fiscal_years,
                                         plan.incomplete_years, plan.month_columns)
    /\ pc' = "aggregated"
    /\ UNCHANGED <<columns, row, plan, varsVar, varsAnon, varsReport, varsUI>>

NextPeriods == DetectFiscalPeriods \/ AggregateByPeriod

SpecPeriods == InitPeriods /\ [][NextPeriods]_vars

(***************************************************************************)
(* Report: every (account row x period pair) is evaluated, in any order;   *)
(* the assembler builds the base report with rule-based questions; the     *)
(* external generator is then tried on the Alta/Media items.               *)
(***************************************************************************)
ReportCodePool == {2000001, 6000001, 6000002}
ReportAccountSets == {S \in SUBSET ReportCodePool : Cardinality(S) = 2}
ReportValues == {<<100000, 150000>>, <<400000, 460000>>, <<400000, 404000>>}
ReportConfigs ==
    [threshold_pct : {DefaultThresholdPct}, threshold_abs : {DefaultThresholdAbs},
     min_value : {DefaultMinValue}, focus_accounts : {{}, {6000001}},
     focus_period_pairs : {{}}]
PairSeq == << <<"FY23", "FY24">>, <<"YTD24", "YTD25">> >>
GeneratorOutcomes == {"ok", "error", "timeout"}

auto_fallback_off == FALSE

\* AISettings.auto_fallback: use the rules if the generator fails
auto_fallback == TRUE

CategoryOf(code) ==
    IF IsAssetAccount(code) THEN "BS"
    ELSE IF code >= 6000000 /\ code <= 7999999 THEN "PL"
    ELSE "other"

Categories == {"BS", "PL", "other"}

PriorityRank(p) == IF p = "Alta" THEN 1 ELSE IF p = "Media" THEN 2 ELSE 3

\* one evaluation of the table: the operands of account code and period pair
OperandsOf(t, e) ==
    [account_code |-> e[1], period_base |-> e[2][1], period_compare |-> e[2][2],
     value_base |-> Num(t[e][1]), value_compare |-> Num(t[e][2])]

EvaluatePair(t, e, cfg) ==
    LET op == OperandsOf(t, e)
        v == calculate_variation(op.value_base, op.value_compare)
        c == ClassifyItem(op, v, cfg)
    IN  [account_code |-> e[1], pair |-> e[2], included |-> c.included,
         priority |-> c.priority, var_pct |-> v.var_pct]

\* generate_question_rule_based: direction and intensity select the template
RuleDirection(pct) == IF Gt(pct, Num(0)) THEN "incremento" ELSE "decremento"

RuleIntensity(pct) ==
    IF Gt(Abs(pct), Num(50)) THEN "significativo"
    ELSE IF Gt(Abs(pct), Num(20)) THEN "moderado"
    ELSE "leve"

ResultsOf(results, code) ==
    {results[i] : i \in {j \in 1..Len(results) : results[j].account_code = code}}

PartsOf(results, code) ==
    LET rs == ResultsOf(results, code)
        has(p) == \E r \in rs : r.pair = p
        of(p) == CHOOSE r \in rs : r.pair = p
        ps == SelectSeq(PairSeq, has)
    IN  [i \in 1..Len(ps) |->
            [pair |-> ps[i], direction |-> RuleDirection(of(ps[i]).var_pct),
             intensity |-> RuleIntensity(of(ps[i]).var_pct),
             variacion |-> of(ps[i]).var_pct]]

RuleQuestion(results, code) ==
    [source |-> "rules", category |-> CategoryOf(code), parts |-> PartsOf(results, code)]

RuleReason(results, code) ==
    [source |-> "rules", parts |-> PartsOf(results, code)]

AIQuestion == [source |-> "ai"]
AIReason == [source |-> "ai"]

\* the priority of the account's result that completed first
ItemPriority_first_completed(results, code) ==
    results[CHOOSE i \in 1..Len(results) :
                /\ results[i].account_code = code
                /\ \A j \in 1..(i - 1) : results[j].account_code # code].priority

ItemPriority(results, code) ==
    LET rs == ResultsOf(results, code)
    IN  (CHOOSE r \in rs : \A q \in rs : PriorityRank(r.priority) <= PriorityRank(q.priority)).priority

QAItemOf(results, code) ==
    [account_code |-> code, category |-> CategoryOf(code),
     priority |-> ItemPriority(results, code),
     question |-> RuleQuestion(results, code),
     reason |-> RuleReason(results, code)]

\* the accounts of the collected results, in the order they first completed
RECURSIVE FirstCompleted(_, _)
FirstCompleted(results, seen) ==
    IF results = <<>> THEN <<>>
    ELSE IF Head(results).account_code \in seen
         THEN FirstCompleted(Tail(results), seen)
    ELSE <<Head(results).account_code>>
             \o FirstCompleted(Tail(results), seen \cup {Head(results).account_code})

CollectItems(results) ==
    LET codes == FirstCompleted(results, {})
    IN  [i \in 1..Len(codes) |-> QAItemOf(results, codes[i])]

\* Alta, then Media, then Baja; ties by account code ascending
Before(a, b) ==
    \/ PriorityRank(a.priority) < PriorityRank(b.priority)
    \/ /\ PriorityRank(a.priority) = PriorityRank(b.priority)
       /\ a.account_code < b.account_code

RECURSIVE InsertItem(_, _)
InsertItem(sorted, x) ==
    IF sorted = <<>> THEN <<x>>
    ELSE IF Before(x, Head(sorted)) THEN <<x>> \o sorted
    ELSE <<Head(sorted)>> \o InsertItem(Tail(sorted), x)

RECURSIVE InsertAll(_, _)
InsertAll(sorted, items) ==
    IF items = <<>> THEN sorted
    ELSE InsertAll(InsertItem(sorted, Head(items)), Tail(items))

SortItems_keep_order(items) == items

SortItems(items) == InsertAll(<<>>, items)

AssembleReport(results) ==
    LET items == SortItems(CollectItems(results))
    IN  [cat \in Categories |-> SelectSeq(items, LAMBDA it : it.category = cat)]

\* the fixed control points of the sheet "General"
ChecklistPoints == 25
StandardChecklist == 1..ChecklistPoints

GeneralSheet_only_with_items(items) ==
    IF items = <<>> THEN {} ELSE StandardChecklist

GeneralSheet(items) == StandardChecklist

ReportItems(rep) ==
    UNION {{rep[cat][i] : i \in 1..Len(rep[cat])} : cat \in Categories}

\* the generator is used only for the items of Alta and Media priority
ImportantCodes(rep) ==
    {it.account_code : it \in {x \in ReportItems(rep) : x.priority \in {"Alta", "Media"}}}

\* a successful call replaces the texts; otherwise the rule-based texts stay
EnhanceItem(it, outcome) ==
    IF outcome = "ok"
    THEN [it EXCEPT !.question = AIQuestion, !.reason = AIReason]
    ELSE it

EnhanceReport(rep, code, outcome) ==
    [cat \in Categories |->
        [i \in 1..Len(rep[cat]) |->
            IF rep[cat][i].account_code = code
            THEN EnhanceItem(rep[cat][i], outcome) ELSE rep[cat][i]]]

InitReport ==
    /\ pc = "evaluating"
    /\ config \in ReportConfigs
    /\ \E accounts \in ReportAccountSets :
         /\ table \in [accounts \X {PairSeq[i] : i \in 1..Len(PairSeq)} -> ReportValues]
         /\ pending = DOMAIN table
    /\ collected = <<>>
    /\ report = None
    /\ outcomes = EmptyMap
    /\ general = {} /\ previous = None
    /\ UIIdle
    /\ operands = None /\ variation = None /\ qa_item = None
    /\ anon = None /\ strict_mode = TRUE
    /\ columns = <<>> /\ row = <<>> /\ plan = None /\ aggregated = None

\* one (row x period pair) evaluation completes
Evaluate ==
    /\ pc = "evaluating"
    /\ \E e \in pending :
         LET r == EvaluatePair(table, e, config)
         IN  /\ pending' = pending \ {e}
             /\ collected' = IF r.included THEN Append(collected, r) ELSE collected
    /\ UNCHANGED <<pc, table, report, outcomes, general, previous, varsVar, varsAnon, varsPeriods, varsUI>>

\* generate_report_with_ai, step 1: the base report
Assemble ==
    /\ pc = "evaluating"
    /\ pending = {}
    /\ report' = AssembleReport(collected)
    /\ general' = GeneralSheet(CollectItems(collected))
    /\ pc' = "assembled"
    /\ UNCHANGED <<table, pending, collected, outcomes, previous, varsVar, varsAnon, varsPeriods, varsUI>>

\* generate_report_with_ai, steps 2 and 3: one call of the generator
Generate ==
    /\ pc = "assembled"
    /\ \E code \in ImportantCodes(report) \ DOMAIN outcomes, outcome \in GeneratorOutcomes :
         /\ outcomes' = Put(outcomes, code, outcome)
         /\ IF outcome = "ok" \/ auto_fallback
            THEN /\ report' = EnhanceReport(report, code, outcome)
                 /\ pc' = pc
            ELSE /\ report' = report
                 /\ pc' = "aborted"
    /\ UNCHANGED <<table, pending, collected, general, previous, varsVar, varsAnon, varsPeriods, varsUI>>

Finish ==
    /\ pc = "assembled"
    /\ ImportantCodes(report) \subseteq DOMAIN outcomes
    /\ pc' = "done"
    /\ UNCHANGED <<table, pending, collected, report, outcomes, general, previous, varsVar, varsAnon, varsPeriods, varsUI>>

\* the account codes and priorities of a report, in its order
OrderOf(rep) ==
    [cat \in Categories |->
        [i \in 1..Len(rep[cat]) |-> <<rep[cat][i].account_code, rep[cat][i].priority>>]]

\* a second run on the same table and configuration
Rerun ==
    /\ pc = "done"
    /\ previous = None
    /\ previous' = OrderOf(report)
    /\ pending' = DOMAIN table
    /\ collected' = <<>>
    /\ report' = None
    /\ outcomes' = EmptyMap
    /\ general' = {}
    /\ pc' = "evaluating"
    /\ UNCHANGED <<table, varsVar, varsAnon, varsPeriods, varsUI>>

NextReport == Evaluate \/ Assemble \/ Generate \/ Finish \/ Rerun

SpecReport == InitReport /\ [][NextReport]_vars

(***************************************************************************)
(* Frontend pages.  The engine's variables stay idle under them.           *)
(***************************************************************************)
EngineIdle ==
    /\ config = None /\ operands = None /\ variation = None /\ qa_item = None
    /\ anon = None /\ strict_mode = TRUE
    /\ columns = <<>> /\ row = <<>> /\ plan = None /\ aggregated = None
    /\ table = None /\ pending = {} /\ collected = <<>> /\ report = None
    /\ outcomes = None /\ general = {} /\ previous = None

\* files of the store; a file in error carries no counts
FileA ==
    [id |-> 1, status |-> "success", questions_generated |-> 3,
     high_priority_count |-> 0, medium_priority_count |-> 2, low_priority_count |-> 1]
FileB ==
    [id |-> 2, status |-> "success", questions_generated |-> 5,
     high_priority_count |-> 2, medium_priority_count |-> 0, low_priority_count |-> 3]
FileC == [id |-> 3, status |-> "error"]
FileD == [id |-> 4, status |-> "success", questions_generated |-> 0]
(***************************************************************************)
(* AuditPage: drafts of status / response / follow_up per displayed item,  *)
(* saved with updateReportItem and merged into the report state.           *)
(***************************************************************************)
MaxEdits == 4

Status == {"Abierto", "En proceso", "Cerrado"}

\* a ?? b
Coalesce(a, b) == IF a \in {Undefined, Null} THEN b ELSE a

Item(code, q) ==
    [account_code |-> code, question |-> q, status |-> "Abierto",
     response |-> "", follow_up |-> ""]

Trim(q) == IF q = " " THEN "" ELSE q

DedupKey(it) == <<it.account_code, Trim(it.question)>>

RECURSIVE KeepFirst(_, _)
KeepFirst(items, seen) ==
    IF items = <<>> THEN <<>>
    ELSE IF DedupKey(Head(items)) \in seen THEN KeepFirst(Tail(items), seen)
    ELSE <<Head(items)>> \o KeepFirst(Tail(items), seen \cup {DedupKey(Head(items))})

\* items with a question, deduplicated by account_code + question
itemsWithQuestion(rep) ==
    IF rep = None THEN <<>>
    ELSE KeepFirst(SelectSeq(rep, LAMBDA it : Trim(it.question) # ""), {})

\* `${idx}_${item.account_code}`, idx counted from 0
itemKey(idx, it) == <<idx, it.account_code>>

EmptyDraft ==
    [status |-> Undefined, response |-> Undefined, follow_up |-> Undefined,
     saving |-> FALSE, error |-> Undefined]

\* drafts[itemKey] || {}
DraftOf(ds, key) == IF key \in DOMAIN ds THEN ds[key] ELSE EmptyDraft

\* setDraft: { ...prev, [key]: { ...prev[key], ...patch } }
setDraft(ds, key, patch) ==
    LET old == DraftOf(ds, key)
        new == [f \in DOMAIN EmptyDraft |->
                   IF f \in DOMAIN patch THEN patch[f] ELSE old[f]]
    IN  [k \in DOMAIN ds \cup {key} |-> IF k = key THEN new ELSE ds[k]]

\* { ...it, ...updated }
Spread(it, updated) ==
    [f \in DOMAIN it |-> IF f \in DOMAIN updated THEN updated[f] ELSE it[f]]

MergeUpdated_every_item(items, accountCode, updated) ==
    [i \in 1..Len(items) |-> Spread(items[i], updated)]

\* prev.items.map(it => it.account_code === accountCode ? {...it, ...updated} : it)
MergeUpdated(items, accountCode, updated) ==
    [i \in 1..Len(items) |->
        IF items[i].account_code = accountCode
        THEN Spread(items[i], updated) ELSE items[i]]

\* the files that can be made active, and the reports the server holds for
\* them: the first displayed item of every report has account 6000001
AuditFiles == {FileA, FileB}
ReportA == << Item(6000001, "q1"), Item(7000001, "q2") >>
ReportB == << Item(6000001, "q1"), Item(6000001, "q2"), Item(7000001, "q1") >>
ReportC ==
    << Item(6000001, " "), Item(6000001, "q1"), Item(6000001, "q1"), Item(7000001, "q2") >>
StoredByFile ==
    {(FileA.id :> ReportA) @@ (FileB.id :> ReportB),
     (FileA.id :> ReportB) @@ (FileB.id :> ReportC),
     (FileA.id :> ReportC) @@ (FileB.id :> ReportA)}

InitAudit ==
    /\ pc = "audit"
    /\ stored \in StoredByFile
    /\ activeFile = None /\ auditReport = None
    /\ drafts = EmptyMap /\ saves = {} /\ edits = 0
    /\ loads = {} /\ auditLoading = FALSE /\ auditError = Null
    /\ shownFor = NoFile /\ draftFile = EmptyMap
    /\ selectedFile = None /\ fileError = "" /\ processing = FALSE
    /\ success = FALSE /\ resultMessage = "" /\ processCall = <<>>
    /\ succeededFor = None
    /\ appLoading = FALSE /\ appError = None /\ files = <<>> /\ picks = 0
    /\ displayed = None
    /\ mounted = {} /\ historyCalls = {}
    /\ storeConfig = None /\ entered = None
    /\ EngineIdle

\* the load effect with a file made active, up to the await; one getReport
\* call per file is in flight at a time
Activate(file) ==
    /\ file # activeFile
    /\ file.id \notin loads
    /\ edits < MaxEdits
    /\ edits' = edits + 1
    /\ activeFile' = file
    /\ auditLoading' = TRUE
    /\ auditError' = Null
    /\ loads' = loads \cup {file.id}
    /\ UNCHANGED <<pc, auditReport, drafts, saves, stored, shownFor, draftFile,
                   varsData, varsKpi, varsConfig, varsBoot, varsEngine>>

\* getReport resolves: setReport(data), then setLoading(false)
LoadResolved(id) ==
    /\ id \in loads
    /\ loads' = loads \ {id}
    /\ auditReport' = stored[id]
    /\ shownFor' = id
    /\ auditLoading' = FALSE
    /\ UNCHANGED <<pc, activeFile, auditError, drafts, saves, stored, edits, draftFile,
                   varsData, varsKpi, varsConfig, varsBoot, varsEngine>>

\* getReport throws: setReport(null), setError, then setLoading(false)
LoadRejected(id) ==
    /\ id \in loads
    /\ loads' = loads \ {id}
    /\ auditReport' = None
    /\ auditError' = "Error al cargar el reporte"
    /\ shownFor' = id
    /\ auditLoading' = FALSE
    /\ UNCHANGED <<pc, activeFile, drafts, saves, stored, edits, draftFile,
                   varsData, varsKpi, varsConfig, varsBoot, varsEngine>>

\* the load effect with no active file
Deactivate ==
    /\ activeFile # None
    /\ edits < MaxEdits
    /\ edits' = edits + 1
    /\ activeFile' = None
    /\ auditReport' = None
    /\ auditError' = Null
    /\ shownFor' = NoFile
    /\ UNCHANGED <<pc, auditLoading, loads, drafts, saves, stored, draftFile,
                   varsData, varsKpi, varsConfig, varsBoot, varsEngine>>

\* activeFile && !loading && !error && report: the items are rendered
ItemsRendered ==
    activeFile # None /\ ~auditLoading /\ auditError = Null /\ auditReport # None

Displayed == itemsWithQuestion(auditReport)

\* draft.follow_up ?? item.follow_up ?? ""
followUpValue(draft, item) == Coalesce(draft.follow_up, Coalesce(item.follow_up, ""))

StatusPatch(st) == [status |-> st]
ResponsePatch(text) == [response |-> text]

\* onChange of the text area "Seguimiento"
FollowUpPatch(draft, item, text) ==
    [response |-> followUpValue(draft, item), follow_up |-> text]

EditPatches(draft, item) ==
    {StatusPatch(st) : st \in Status \ {"Abierto"}}
        \cup {ResponsePatch("respuesta"), FollowUpPatch(draft, item, "seguimiento")}

\* onChange of the status select, the response and the follow-up text areas
EditDraft ==
    /\ ItemsRendered
    /\ edits < MaxEdits
    /\ \E idx \in 1..Len(Displayed) :
         LET key == itemKey(idx - 1, Displayed[idx])
         IN  /\ \E patch \in EditPatches(DraftOf(drafts, key), Displayed[idx]) :
                  drafts' = setDraft(drafts, key, patch)
             /\ draftFile' = Put(draftFile, key, shownFor)
    /\ edits' = edits + 1
    /\ UNCHANGED <<pc, activeFile, auditReport, saves, stored, loads, auditLoading,
                   auditError, shownFor, varsData, varsKpi, varsConfig, varsBoot, varsEngine>>

\* saveItem up to the await
SaveItem ==
    /\ ItemsRendered
    /\ edits < MaxEdits
    /\ \E idx \in 1..Len(Displayed) :
         LET item == Displayed[idx]
             key == itemKey(idx - 1, item)
             draft == DraftOf(drafts, key)
         IN  /\ ~draft.saving
             /\ drafts' = setDraft(drafts, key, [saving |-> TRUE, error |-> Null])
             /\ saves' = saves \cup
                  {[key |-> key, file |-> activeFile.id,
                    typed_on |-> IF key \in DOMAIN draftFile THEN draftFile[key] ELSE shownFor,
                    shown |-> shownFor,
                    account_code |-> item.account_code,
                    payload |-> [status |-> Coalesce(draft.status, item.status),
                                 response |-> Coalesce(draft.response, item.response),
                                 follow_up |-> Coalesce(draft.follow_up, item.follow_up)]]}
    /\ edits' = edits + 1
    /\ UNCHANGED <<pc, activeFile, auditReport, stored, loads, auditLoading,
                   auditError, shownFor, draftFile, varsData, varsKpi, varsConfig, varsBoot, varsEngine>>

\* updateReportItem resolves: setReport merges, the draft stops saving
SaveResolved ==
    /\ \E req \in saves :
         /\ saves' = saves \ {req}
         /\ stored' = [stored EXCEPT ![req.file] =
                          MergeUpdated(stored[req.file], req.account_code, req.payload)]
         /\ auditReport' = IF auditReport = None THEN auditReport
                           ELSE MergeUpdated(auditReport, req.account_code, req.payload)
         /\ drafts' = setDraft(drafts, req.key, [saving |-> FALSE, error |-> Null])
    /\ UNCHANGED <<pc, activeFile, edits, loads, auditLoading, auditError, shownFor,
                   draftFile, varsData, varsKpi, varsConfig, varsBoot, varsEngine>>

\* updateReportItem throws: only the draft changes
SaveRejected ==
    /\ \E req \in saves :
         /\ saves' = saves \ {req}
         /\ drafts' = setDraft(drafts, req.key,
                               [saving |-> FALSE, error |-> "Error al guardar"])
    /\ UNCHANGED <<pc, activeFile, auditReport, stored, edits, loads, auditLoading,
                   auditError, shownFor, draftFile, varsData, varsKpi, varsConfig, varsBoot, varsEngine>>

NextAudit ==
    \/ \E file \in AuditFiles : Activate(file)
    \/ \E id \in loads : LoadResolved(id)
    \/ \E id \in loads : LoadRejected(id)
    \/ Deactivate
    \/ EditDraft
    \/ SaveItem
    \/ SaveResolved
    \/ SaveRejected

SpecAudit == InitAudit /\ [][NextAudit]_vars

(***************************************************************************)
(* DataPage: file selection with validateFile, and handleProcess.          *)
(***************************************************************************)
MaxPicks == 2

accept == <<".xlsx", ".xls", ".xlsm", ".csv", ".txt">>
maxSize == 100
BytesPerMB == 1024 * 1024

\* file.name as file.name.split('.') gives it, and file.size in bytes
UploadNames ==
    { <<"balance", "xlsx">>, <<"balance", "XLSX">>, <<"datos", "2024", "Csv">>,
      <<"notas", "pdf">>, <<"informe", "txt">>, <<"xlsx">> }
UploadSizes == {1024, maxSize * BytesPerMB, maxSize * BytesPerMB + 1}
UploadFiles == [name : UploadNames, size : UploadSizes]

toLowerCase(s) ==
    CASE s = "XLSX" -> "xlsx"
      [] s = "Csv" -> "csv"
      [] OTHER -> s

\* '.' + file.name.split('.').pop()?.toLowerCase()
fileExtension(file) == "." \o toLowerCase(file.name[Len(file.name)])

includes(list, x) == \E i \in 1..Len(list) : list[i] = x

validateFile_no_size(file) ==
    IF ~includes(accept, fileExtension(file))
    THEN [ok |-> FALSE, fileError |-> "Formato no valido"]
    ELSE [ok |-> TRUE, fileError |-> ""]

\* the result, and the fileError it leaves
validateFile(file) ==
    IF ~includes(accept, fileExtension(file))
    THEN [ok |-> FALSE, fileError |-> "Formato no valido"]
    ELSE IF file.size > maxSize * BytesPerMB
    THEN [ok |-> FALSE, fileError |-> "El archivo es muy grande"]
    ELSE [ok |-> TRUE, fileError |-> ""]

\* DataPage keeps no state for a confirmation that the thresholds were
\* reviewed, and none of its controls gives one
thresholdsReviewed == FALSE

\* the text of an input, character by character
DigitChars == <<"0", "1", "2", "3", "4", "5", "6", "7", "8", "9">>
IsDigit(c) == \E i \in 1..10 : DigitChars[i] = c
DigitOf(c) == (CHOOSE i \in 1..10 : DigitChars[i] = c) - 1

RECURSIVE LeadingDigits(_)
LeadingDigits(s) ==
    IF s = <<>> THEN 0
    ELSE IF IsDigit(Head(s)) THEN 1 + LeadingDigits(Tail(s))
    ELSE 0

RECURSIVE DigitsValue(_)
DigitsValue(s) ==
    IF s = <<>> THEN 0 ELSE 10 * DigitsValue(SubSeq(s, 1, Len(s) - 1)) + DigitOf(s[Len(s)])

\* parseInt(text): the leading digits, NaN without any (texts carry no sign)
parseInt(s) ==
    LET n == LeadingDigits(s)
    IN  IF n = 0 THEN NaN ELSE Num(DigitsValue(SubSeq(s, 1, n)))

\* parseFloat(text): leading digits and an optional fraction (texts carry no
\* sign and no exponent)
parseFloat(s) ==
    LET n == LeadingDigits(s)
        rest == SubSeq(s, n + 1, Len(s))
        k == IF rest # <<>> /\ Head(rest) = "." THEN LeadingDigits(Tail(rest)) ELSE 0
    IN  IF n = 0 /\ k = 0 THEN NaN
        ELSE Rat(DigitsValue(SubSeq(s, 1, n)) * (10 ^ k)
                    + DigitsValue(SubSeq(rest, 2, k + 1)), 10 ^ k)

\* x || fallback for a number: NaN and 0 are falsy
OrElse(x, fallback) == IF IsNaN(x) \/ x.num = 0 THEN fallback ELSE x

VariationFallback == 20
MaterialityFallback == 100000

ThresholdTexts ==
    {<<>>, <<"0">>, <<"5">>, <<"1", "5">>, <<"1", "0", "0">>, <<"0", "0", "7">>,
     <<"1", "2", ".", "5">>, <<"a", "b", "c">>, <<"7", "5", "0", "0", "0">>}

\* the thresholds the form shows when the page opens
StoreConfigs ==
    {[variation_threshold |-> Num(DefaultThresholdPct),
      materiality_threshold |-> Num(DefaultThresholdAbs)],
     [variation_threshold |-> Num(VariationFallback),
      materiality_threshold |-> Num(MaterialityFallback)]}

InitData ==
    /\ pc = "data"
    /\ selectedFile = None /\ fileError = "" /\ processing = FALSE
    /\ success = FALSE /\ resultMessage = "" /\ processCall = <<>>
    /\ succeededFor = None
    /\ appLoading = FALSE /\ appError = None /\ files = <<>> /\ picks = 0
    /\ displayed = None
    /\ mounted = {} /\ historyCalls = {}
    /\ storeConfig = None /\ entered = None
    /\ AuditIdle
    /\ EngineIdle

\* handleChange / handleDrop -> handleFile
HandleFile(file) ==
    /\ picks < MaxPicks
    /\ picks' = picks + 1
    /\ fileError' = validateFile(file).fileError
    /\ IF validateFile(file).ok
       THEN /\ selectedFile' = file
            /\ success' = FALSE
            /\ resultMessage' = ""
       ELSE UNCHANGED <<selectedFile, success, resultMessage>>
    /\ UNCHANGED <<pc, processing, processCall, succeededFor, appLoading, appError, files,
                   varsAudit, varsKpi, varsConfig, varsBoot, varsEngine>>

RemoveFile ==
    /\ selectedFile # None
    /\ selectedFile' = None
    /\ fileError' = ""
    /\ success' = FALSE
    /\ resultMessage' = ""
    /\ UNCHANGED <<pc, processing, processCall, succeededFor, appLoading, appError, files, picks,
                   varsAudit, varsKpi, varsConfig, varsBoot, varsEngine>>

processDisabled_ignores_processing == selectedFile = None \/ success

\* disabled={!selectedFile || processing || success}
processDisabled == selectedFile = None \/ processing \/ success

\* a click on the process button: handleProcess up to the await
HandleProcess ==
    /\ ~processDisabled
    /\ selectedFile # None
    /\ processing' = TRUE
    /\ appLoading' = TRUE
    /\ appError' = None
    /\ success' = FALSE
    /\ processCall' = Append(processCall, selectedFile)
    /\ UNCHANGED <<pc, selectedFile, fileError, resultMessage, succeededFor, files, picks,
                   varsAudit, varsKpi, varsConfig, varsBoot, varsEngine>>

RemoveAt(s, i) == SubSeq(s, 1, i - 1) \o SubSeq(s, i + 1, Len(s))

\* processDocument returns result.success, with or without a document
ProcessSucceeded ==
    /\ \E i \in 1..Len(processCall) :
         /\ processCall' = RemoveAt(processCall, i)
         /\ succeededFor' = processCall[i]
         /\ \/ files' = Append(files, processCall[i])
            \/ files' = files
    /\ success' = TRUE
    /\ resultMessage' = "procesado"
    /\ processing' = FALSE /\ appLoading' = FALSE
    /\ UNCHANGED <<pc, selectedFile, fileError, appError, picks, varsAudit, varsKpi, varsConfig, varsBoot, varsEngine>>

\* processDocument returns an error, or throws
ProcessFailed ==
    /\ \E i \in 1..Len(processCall) : processCall' = RemoveAt(processCall, i)
    /\ \E msg \in {"Error al procesar el documento", "Error de conexion con el servidor"} :
         /\ appError' = msg
         /\ fileError' = msg
    /\ processing' = FALSE /\ appLoading' = FALSE
    /\ UNCHANGED <<pc, selectedFile, success, resultMessage, succeededFor, files, picks,
                   varsAudit, varsKpi, varsConfig, varsBoot, varsEngine>>

NextData ==
    \/ \E file \in UploadFiles : HandleFile(file)
    \/ RemoveFile
    \/ HandleProcess
    \/ ProcessSucceeded
    \/ ProcessFailed

SpecData == InitData /\ [][NextData]_vars

(***************************************************************************)
(* DataPage: the threshold inputs of the advanced configuration.           *)
(***************************************************************************)
InitConfig ==
    /\ pc = "config"
    /\ storeConfig \in StoreConfigs /\ entered = None
    /\ selectedFile = None /\ fileError = "" /\ processing = FALSE
    /\ success = FALSE /\ resultMessage = "" /\ processCall = <<>>
    /\ succeededFor = None
    /\ appLoading = FALSE /\ appError = None /\ files = <<>> /\ picks = 0
    /\ displayed = None
    /\ mounted = {} /\ historyCalls = {}
    /\ AuditIdle
    /\ EngineIdle

\* onChange of the input "Umbral de Variacion (%)"
ChangeVariationThreshold(text) ==
    /\ entered' = [field |-> "variation_threshold", text |-> text]
    /\ storeConfig' = [storeConfig EXCEPT !.variation_threshold =
                          OrElse(parseFloat(text), Num(VariationFallback))]
    /\ UNCHANGED <<pc, varsData, varsAudit, varsKpi, varsBoot, varsEngine>>

\* onChange of the input "Umbral de Materialidad"
ChangeMaterialityThreshold(text) ==
    /\ entered' = [field |-> "materiality_threshold", text |-> text]
    /\ storeConfig' = [storeConfig EXCEPT !.materiality_threshold =
                          OrElse(parseInt(text), Num(MaterialityFallback))]
    /\ UNCHANGED <<pc, varsData, varsAudit, varsKpi, varsBoot, varsEngine>>

NextConfig ==
    \/ \E text \in ThresholdTexts : ChangeVariationThreshold(text)
    \/ \E text \in ThresholdTexts : ChangeMaterialityThreshold(text)

SpecConfig == InitConfig /\ [][NextConfig]_vars

(***************************************************************************)
(* Dashboard and AnalyticsPage: the KPI counts rendered from the store.    *)
(***************************************************************************)
StoreFiles == <<FileA, FileB, FileC, FileD>>
FileLists ==
    {SelectSeq(StoreFiles, LAMBDA f : f.id \in ids) : ids \in SUBSET {1, 2, 3, 4}}

\* file.field || fallback
FieldOr(file, field, fallback) ==
    IF field \notin DOMAIN file THEN fallback
    ELSE IF file[field] = 0 THEN fallback
    ELSE file[field]

RECURSIVE totalStats(_)
totalStats(fs) ==
    IF fs = <<>>
    THEN [totalQuestions |-> 0, highPriority |-> 0, mediumPriority |-> 0,
          lowPriority |-> 0, successCount |-> 0]
    ELSE LET acc == totalStats(SubSeq(fs, 1, Len(fs) - 1))
             file == fs[Len(fs)]
         IN  IF file.status = "success"
             THEN [totalQuestions |-> acc.totalQuestions + FieldOr(file, "questions_generated", 0),
                   highPriority |-> acc.highPriority + FieldOr(file, "high_priority_count", 0),
                   mediumPriority |-> acc.mediumPriority + FieldOr(file, "medium_priority_count", 0),
                   lowPriority |-> acc.lowPriority + FieldOr(file, "low_priority_count", 0),
                   successCount |-> acc.successCount + 1]
             ELSE acc

\* activeFile && activeFile.status === 'success' ? {...} : null
currentStats(af) ==
    IF af # None /\ af.status = "success"
    THEN [questions |-> FieldOr(af, "questions_generated", 0),
          high |-> FieldOr(af, "high_priority_count", 0),
          medium |-> FieldOr(af, "medium_priority_count", 0),
          low |-> FieldOr(af, "low_priority_count", 0)]
    ELSE None

\* currentStats?.field || total
StatOrTotal(cs, field, total) ==
    IF cs = None THEN total ELSE IF cs[field] = 0 THEN total ELSE cs[field]

\* the count handed to the priority distribution bar and its legend
BarCount(cs, field, total) == StatOrTotal(cs, field, total)

DashboardView(fs, af) ==
    LET cs == currentStats(af)
        ts == totalStats(fs)
    IN  [page |-> "dashboard",
         questions |-> IF cs # None THEN cs.questions ELSE ts.totalQuestions,
         high |-> IF cs # None THEN cs.high ELSE ts.highPriority,
         medium |-> IF cs # None THEN cs.medium ELSE ts.mediumPriority,
         low |-> IF cs # None THEN cs.low ELSE ts.lowPriority]

AnalyticsView(fs, af) ==
    LET cs == currentStats(af)
        ts == totalStats(fs)
    IN  [page |-> "analytics",
         questions |-> IF cs # None THEN cs.questions ELSE ts.totalQuestions,
         high |-> IF cs # None THEN cs.high ELSE ts.highPriority,
         mediumLow |-> IF cs # None THEN cs.medium + cs.low
                       ELSE ts.mediumPriority + ts.lowPriority,
         barHigh |-> BarCount(cs, "high", ts.highPriority),
         barMedium |-> BarCount(cs, "medium", ts.mediumPriority),
         barLow |-> BarCount(cs, "low", ts.lowPriority)]

InitKpi ==
    /\ pc = "kpi"
    /\ files \in FileLists
    /\ AuditIdle
    /\ displayed = None
    /\ mounted = {} /\ historyCalls = {}
    /\ storeConfig = None /\ entered = None
    /\ selectedFile = None /\ fileError = "" /\ processing = FALSE
    /\ success = FALSE /\ resultMessage = "" /\ processCall = <<>>
    /\ succeededFor = None
    /\ appLoading = FALSE /\ appError = None /\ picks = 0
    /\ EngineIdle

\* a file of the list is made active, or none
SetActiveFile ==
    /\ \E af \in {files[i] : i \in 1..Len(files)} \cup {None} :
         /\ af # activeFile
         /\ activeFile' = af
    /\ displayed' = None
    /\ UNCHANGED <<pc, auditReport, drafts, saves, stored, edits, loads, auditLoading,
                   auditError, shownFor, draftFile, varsData, varsConfig, varsBoot, varsEngine>>

RenderDashboard ==
    /\ displayed' = DashboardView(files, activeFile)
    /\ displayed' # displayed
    /\ UNCHANGED <<pc, varsAudit, varsData, varsConfig, varsBoot, varsEngine>>

RenderAnalytics ==
    /\ Len(files) > 0
    /\ displayed' = AnalyticsView(files, activeFile)
    /\ displayed' # displayed
    /\ UNCHANGED <<pc, varsAudit, varsData, varsConfig, varsBoot, varsEngine>>

NextKpi == SetActiveFile \/ RenderDashboard \/ RenderAnalytics

SpecKpi == InitKpi /\ [][NextKpi]_vars

(***************************************************************************)
(* Application start: AppBootstrap and Dashboard both load the history.    *)
(***************************************************************************)
Loaders == {"AppBootstrap", "Dashboard"}

InitBoot ==
    /\ pc = "boot"
    /\ files \in {<<>>, <<FileA>>}
    /\ appLoading = FALSE /\ appError = None
    /\ mounted = {} /\ historyCalls = {}
    /\ selectedFile = None /\ fileError = "" /\ processing = FALSE
    /\ success = FALSE /\ resultMessage = "" /\ processCall = <<>>
    /\ succeededFor = None /\ picks = 0
    /\ displayed = None
    /\ storeConfig = None /\ entered = None
    /\ AuditIdle
    /\ EngineIdle

\* the load effect of a component, up to the await
Mount(who) ==
    /\ who \notin mounted
    /\ mounted' = mounted \cup {who}
    /\ IF Len(files) > 0
       THEN UNCHANGED <<appLoading, historyCalls>>
       ELSE /\ appLoading' = TRUE
            /\ historyCalls' = historyCalls \cup {who}
    /\ UNCHANGED <<pc, files, appError, selectedFile, fileError, processing, success,
                   resultMessage, processCall, succeededFor, picks,
                   varsAudit, varsKpi, varsConfig, varsEngine>>

\* getHistory resolves: setFiles, then setLoading(false)
HistoryResolved(who) ==
    /\ who \in historyCalls
    /\ historyCalls' = historyCalls \ {who}
    /\ \E documents \in FileLists : files' = documents
    /\ appLoading' = FALSE
    /\ UNCHANGED <<pc, mounted, appError, selectedFile, fileError, processing, success,
                   resultMessage, processCall, succeededFor, picks,
                   varsAudit, varsKpi, varsConfig, varsEngine>>

\* getHistory throws: setError, then setLoading(false)
HistoryRejected(who) ==
    /\ who \in historyCalls
    /\ historyCalls' = historyCalls \ {who}
    /\ appError' = "Error al cargar datos"
    /\ appLoading' = FALSE
    /\ UNCHANGED <<pc, mounted, files, selectedFile, fileError, processing, success,
                   resultMessage, processCall, succeededFor, picks,
                   varsAudit, varsKpi, varsConfig, varsEngine>>

NextBoot ==
    \/ \E who \in Loaders : Mount(who)
    \/ \E who \in Loaders : HistoryResolved(who)
    \/ \E who \in Loaders : HistoryRejected(who)

SpecBoot == InitBoot /\ [][NextBoot]_vars

(***************************************************************************)
(* Properties of one evaluation (SpecVar)                                  *)
(***************************************************************************)
Computable == ~IsNaN(operands.value_base) /\ ~IsNaN(operands.value_compare)
BaseInt == operands.value_base.num
CompareInt == operands.value_compare.num
OpPair == <<operands.period_base, operands.period_compare>>

FocusHit ==
    \/ operands.account_code \in config.focus_accounts
    \/ OpPair \in config.focus_period_pairs

NegativeAsset ==
    /\ IsAssetAccount(operands.account_code)
    /\ \/ ~IsNaN(operands.value_base) /\ BaseInt < 0
       \/ ~IsNaN(operands.value_compare) /\ CompareInt < 0

AppearedOrDisappeared ==
    /\ Computable
    /\ \/ BaseInt = 0 /\ CompareInt # 0
       \/ BaseInt # 0 /\ CompareInt = 0

\* |variation_pct| >= k * threshold_pct, on the computed percentage
PctAtLeast(k) ==
    /\ ~IsNaN(variation.var_pct)
    /\ AbsInt(variation.var_pct.num) >= k * config.threshold_pct * variation.var_pct.den

ThreeGates ==
    /\ PctAtLeast(1)
    /\ ~IsNaN(variation.var_abs)
    /\ AbsInt(variation.var_abs.num) >= config.threshold_abs * variation.var_abs.den
    /\ (IF AbsInt(BaseInt) >= AbsInt(CompareInt) THEN AbsInt(BaseInt)
        ELSE AbsInt(CompareInt)) >= config.min_value

C2_VariationFormula ==
    (pc # "start" /\ Computable)
    => /\ variation.var_abs = Num(CompareInt - BaseInt)
       /\ ~IsNaN(variation.var_pct)
       /\ (BaseInt = 0 /\ CompareInt = 0) => variation.var_pct = Num(0)
       /\ (BaseInt = 0 /\ CompareInt > 0) => variation.var_pct = Num(100)
       /\ (BaseInt = 0 /\ CompareInt < 0) => variation.var_pct = Num(-100)
       /\ (BaseInt # 0)
            => variation.var_pct.num * AbsInt(BaseInt)
                 = (CompareInt - BaseInt) * 100 * variation.var_pct.den

\* a negative base: -100000 -> -50000 is +50 %
C2_Witness ==
    /\ pc = "varied"
    /\ BaseInt = -100000 /\ CompareInt = -50000 /\ Computable
    /\ variation.var_pct = Num(50)
    /\ variation.var_abs = Num(50000)

\* C5: a row whose account code is in focus_accounts, or whose period pair is
\* in focus_period_pairs, is in the output tagged "forced", whatever the
\* variation and the thresholds.
C5_FocusForcesInclusion ==
    (pc = "classified" /\ FocusHit)
    => (qa_item.included /\ "forced" \in qa_item.tags)

\* focus_accounts = {7000001}, a 2 % variation under threshold_pct = 10
C5_Witness ==
    /\ pc = "classified"
    /\ operands.account_code = 7000001
    /\ config.focus_accounts = {7000001} /\ config.focus_period_pairs = {}
    /\ Computable /\ BaseInt = 100000 /\ CompareInt = 102000
    /\ config.threshold_pct = 10
    /\ ~qa_item.material
    /\ qa_item.included /\ "forced" \in qa_item.tags

\* C6: an asset-type account with a negative balance is in the output with the
\* sign-anomaly tag and priority Alta, whatever the variation and thresholds.
C6_SignAnomalyForcesAlta ==
    (pc = "classified" /\ NegativeAsset)
    => /\ qa_item.included
       /\ "sign-anomaly" \in qa_item.tags
       /\ qa_item.priority = "Alta"

\* asset account at -20000 in both periods: 0 % variation, still Alta
C6_Witness ==
    /\ pc = "classified"
    /\ operands.account_code = 2000001
    /\ Computable /\ BaseInt = -20000 /\ CompareInt = -20000
    /\ config.threshold_pct = 10 /\ ~FocusHit
    /\ ~qa_item.material
    /\ qa_item.included /\ qa_item.priority = "Alta"

\* C7: priority is Alta if |variation_pct| >= 2 * threshold_pct or the item is
\* a sign anomaly or a new / disappeared account, else Media if
\* |variation_pct| >= threshold_pct, else Baja; 100000 -> 150000 under
\* threshold_pct = 10 is 50 % and Alta.
C7_PriorityFunction ==
    (pc = "classified")
    => /\ qa_item.priority =
            (IF PctAtLeast(2) \/ NegativeAsset \/ AppearedOrDisappeared THEN "Alta"
             ELSE IF PctAtLeast(1) /\ ~PctAtLeast(2) THEN "Media"
             ELSE "Baja")
       /\ (Computable /\ BaseInt = 100000 /\ CompareInt = 150000
             /\ config.threshold_pct = 10)
            => (variation.var_pct = Num(50) /\ qa_item.priority = "Alta")

\* a Media item: 100000 -> 80000 is -20 % under threshold_pct = 20
C7_Witness ==
    /\ pc = "classified"
    /\ Computable /\ BaseInt = 100000 /\ CompareInt = 80000
    /\ config.threshold_pct = 20 /\ ~NegativeAsset
    /\ qa_item.priority = "Media"

Sign(n) == IF n > 0 THEN 1 ELSE IF n < 0 THEN -1 ELSE 0

\* C15: for computable operands with base # 0 the sign of variation_pct is
\* the sign of compare - base; in particular base < 0 and compare > base give
\* variation_pct > 0.
C15_VariationSign ==
    (pc # "start" /\ Computable /\ BaseInt # 0)
    => /\ ~IsNaN(variation.var_pct)
       /\ Sign(variation.var_pct.num) = Sign(CompareInt - BaseInt)
       /\ (BaseInt < 0 /\ CompareInt > BaseInt) => Gt(variation.var_pct, Num(0))

\* a negative base that turns positive: -100000 -> 50000 is +150 %
C15_Witness ==
    /\ pc = "varied"
    /\ Computable /\ BaseInt = -100000 /\ CompareInt = 50000
    /\ variation.var_pct = Num(150)

C12_NaNNotComputable ==
    (pc \in {"varied", "classified"} /\ ~Computable)
    => /\ IsNaN(variation.var_abs)
       /\ IsNaN(variation.var_pct)
       /\ (pc = "classified" => ~qa_item.material)

(***************************************************************************)
(* Properties of detection and aggregation (SpecPeriods)                   *)
(***************************************************************************)
ColsOfYear(y) == {i \in 1..Len(columns) : columns[i].year = y}
MonthsOf(y) == {columns[i].month : i \in ColsOfYear(y)}
DetectedYears == {columns[i].year : i \in {j \in 1..Len(columns) : MatchesPattern(columns[j])}}
NoDuplicateMonth(y) == Cardinality(ColsOfYear(y)) = Cardinality(MonthsOf(y))
SeqRange(s) == {s[i] : i \in 1..Len(s)}

RECURSIVE SumOver(_)
SumOver(I) ==
    IF I = {} THEN 0
    ELSE LET i == CHOOSE x \in I : TRUE IN row[i] + SumOver(I \ {i})

\* the sum of year y's values over the calendar months in M
SumOfMonths(y, M) == SumOver({i \in ColsOfYear(y) : columns[i].month \in M})

\* C3 (as claimed): for every incomplete year Y with months M whose prior year
\* is in the plan, YTD{Y-1} is the sum of year Y-1 over exactly the calendar
\* months in M, matched by month index.
C3_YTDAlignedByMonthIndex ==
    (pc = "aggregated")
    => \A y \in DetectedYears :
         (/\ NoDuplicateMonth(y) /\ Cardinality(MonthsOf(y)) < MonthsPerYear
          /\ (y - 1) \in DetectedYears /\ NoDuplicateMonth(y - 1)
          /\ MonthsOf(y) \subseteq MonthsOf(y - 1))
         => /\ YTD(y - 1) \in DOMAIN aggregated
            /\ aggregated[YTD(y - 1)] = SumOfMonths(y - 1, MonthsOf(y))

\* C4: a year whose columns are 12 distinct months is complete and aggregated
\* as FY{yy}; a year whose columns are 1 to 11 distinct months is incomplete
\* and aggregated as YTD{yy}; every detected year is in exactly one class.
C4_CompleteIffTwelveMonths ==
    /\ (pc \in {"detected", "aggregated"})
        => \A y \in DetectedYears :
             /\ (y \in SeqRange(plan.fiscal_years))
                    # (y \in SeqRange(plan.incomplete_years))
             /\ NoDuplicateMonth(y)
                    => (y \in SeqRange(plan.fiscal_years)
                            <=> Cardinality(MonthsOf(y)) = MonthsPerYear)
    /\ (pc = "aggregated")
        => \A y \in DetectedYears :
             NoDuplicateMonth(y)
                => IF Cardinality(MonthsOf(y)) = MonthsPerYear
                   THEN /\ FY(y) \in DOMAIN aggregated
                        /\ aggregated[FY(y)] = SumOfMonths(y, 1..MonthsPerYear)
                   ELSE /\ YTD(y) \in DOMAIN aggregated
                        /\ (y + 1) \notin SeqRange(plan.incomplete_years)
                              => aggregated[YTD(y)] = SumOfMonths(y, MonthsOf(y))

\* 2024 complete and 2025 with 11 months, both aggregated
C4_Witness ==
    /\ pc = "aggregated"
    /\ NoDuplicateMonth(FirstYear + 1) /\ NoDuplicateMonth(FirstYear + 2)
    /\ MonthsOf(FirstYear + 1) = 1..MonthsPerYear
    /\ MonthsOf(FirstYear + 2) = 1..(MonthsPerYear - 1)
    /\ plan.fiscal_years = <<FirstYear + 1>>
    /\ plan.incomplete_years = <<FirstYear + 2>>
    /\ FY(FirstYear + 1) \in DOMAIN aggregated
    /\ YTD(FirstYear + 2) \in DOMAIN aggregated

\* C13 (as claimed): a year with two columns of the same month is an error
\* for that year: it is not classified complete and no FY or YTD column is
\* aggregated for it.
C13_DuplicateMonthRejected ==
    /\ (pc \in {"detected", "aggregated"})
        => \A y \in DetectedYears :
             ~NoDuplicateMonth(y) => y \notin SeqRange(plan.fiscal_years)
    /\ (pc = "aggregated")
        => \A y \in DetectedYears :
             ~NoDuplicateMonth(y)
                => FY(y) \notin DOMAIN aggregated /\ YTD(y) \notin DOMAIN aggregated

\* C14 (as claimed): when year Y-1 lacks a calendar month of the incomplete
\* year Y, no comparison value is derived for YTD{Y-1}: the key is absent, or
\* still holds that year's own year-to-date sum over all its columns.
C14_PriorYTDUnavailable ==
    (pc = "aggregated")
    => \A y \in DetectedYears :
         (/\ NoDuplicateMonth(y) /\ Cardinality(MonthsOf(y)) < MonthsPerYear
          /\ (y - 1) \in DetectedYears /\ NoDuplicateMonth(y - 1)
          /\ ~(MonthsOf(y) \subseteq MonthsOf(y - 1)))
         => \/ YTD(y - 1) \notin DOMAIN aggregated
            \/ aggregated[YTD(y - 1)] = SumOver(ColsOfYear(y - 1))

(***************************************************************************)
(* Properties of the anonymizer (SpecAnon)                                 *)
(***************************************************************************)
\* C8 (as claimed): no field of the object returned by the anonymizer equals
\* the original account code, the original description or either exact amount.
C8_NoFieldEqualsOriginals ==
    (pc = "anonymized")
    => \A f \in DOMAIN anon :
         anon[f] \notin {CodeV(operands.account_code), Str(operands.description),
                         NumV(operands.value_base), NumV(operands.value_compare)}

(***************************************************************************)
(* Properties of the report (SpecReport)                                   *)
(***************************************************************************)
\* the accounts accepted by the classifier for at least one period pair
AcceptedCodes == {e[1] : e \in {x \in DOMAIN table : EvaluatePair(table, x, config).included}}

ReportCodes == {it.account_code : it \in ReportItems(report)}

ItemOfCode(code) == CHOOSE it \in ReportItems(report) : it.account_code = code

FailedCodes == {c \in DOMAIN outcomes : outcomes[c] \in {"error", "timeout"}}

\* all evaluations of the table in canonical order: code, then period pair
RECURSIVE EvaluateInOrder(_, _)
EvaluateInOrder(codes, i) ==
    IF codes = <<>> THEN <<>>
    ELSE IF i > Len(PairSeq) THEN EvaluateInOrder(Tail(codes), 1)
    ELSE LET r == EvaluatePair(table, <<Head(codes), PairSeq[i]>>, config)
         IN  (IF r.included THEN <<r>> ELSE <<>>) \o EvaluateInOrder(codes, i + 1)

CanonicalResults == EvaluateInOrder(SetToSeq({e[1] : e \in DOMAIN table}), 1)

C10_ReportOrdering ==
    (pc \in {"assembled", "done"})
    => /\ \A cat \in Categories : \A i, j \in 1..Len(report[cat]) :
            (i < j) => Before(report[cat][i], report[cat][j])
       /\ OrderOf(report) = OrderOf(AssembleReport(CanonicalResults))

\* two items of one category and equal priority, completed in the order
\* opposite to the one of the report
C10_Witness ==
    /\ pc = "assembled"
    /\ \E cat \in Categories :
         /\ Len(report[cat]) = 2
         /\ report[cat][1].priority = report[cat][2].priority
         /\ FirstCompleted(collected, {}) = <<report[cat][2].account_code,
                                              report[cat][1].account_code>>

C16_Determinism ==
    (previous # None /\ pc \in {"assembled", "done"}) => OrderOf(report) = previous

\* a second run with two accounts of different priority in one category,
\* whose evaluations completed in the order opposite to the report
C16_Witness ==
    /\ previous # None
    /\ pc = "done"
    /\ \E cat \in Categories :
         /\ Len(report[cat]) = 2
         /\ report[cat][1].priority # report[cat][2].priority
         /\ FirstCompleted(collected, {}) = <<report[cat][2].account_code,
                                              report[cat][1].account_code>>

(***************************************************************************)
(* Properties of the audit page (SpecAudit)                                *)
(***************************************************************************)
\* C18: a save that resolves changes only the report items whose
\* account_code is the saved item's, and leaves the number of items alone; a
\* save that fails changes no report item and sets the draft's error.
C18_SaveMergesByAccountCode ==
    [][\A req \in saves :
         (saves' = saves \ {req})
         => IF DraftOf(drafts', req.key).error = "Error al guardar"
            THEN auditReport' = auditReport
            ELSE IF auditReport = None THEN auditReport' = None
            ELSE /\ Len(auditReport') = Len(auditReport)
                 /\ \A i \in 1..Len(auditReport) :
                      auditReport[i].account_code # req.account_code
                         => auditReport'[i] = auditReport[i]]_vars

\* one account saved as Cerrado next to an untouched account, and a draft
\* with the error of a failed save
C18_Witness ==
    /\ auditReport # None
    /\ \E i, j \in 1..Len(auditReport) :
         /\ auditReport[i].account_code # auditReport[j].account_code
         /\ auditReport[i].status = "Cerrado"
         /\ auditReport[j] \in {Item(7000001, "q1"), Item(7000001, "q2")}
    /\ \E k \in DOMAIN drafts : drafts[k].error = "Error al guardar"

\* C24 (as claimed): once no getReport call is in flight, the report or the
\* error on the page comes from the response for the active file, and with
\* no active file there is neither.
C24_ReportOfActiveFile ==
    (loads = {})
    => IF activeFile = None
       THEN auditReport = None /\ auditError = Null
       ELSE shownFor = activeFile.id

\* C26 (as claimed): typing in the text area "Seguimiento" of an item changes
\* the follow_up draft of that item and nothing else in the drafts.
C26_FollowUpEditIsLocal ==
    [][\A idx \in 1..Len(Displayed) :
         LET key == itemKey(idx - 1, Displayed[idx])
             old == DraftOf(drafts, key)
         IN  (/\ ItemsRendered
              /\ edits' = edits + 1
              /\ drafts' = setDraft(drafts, key,
                                    FollowUpPatch(old, Displayed[idx], "seguimiento")))
             => /\ \A k \in (DOMAIN drafts') \ {key} :
                      k \in DOMAIN drafts /\ drafts'[k] = drafts[k]
                /\ drafts'[key] = [old EXCEPT !.follow_up = "seguimiento"]]_vars

\* C27 (as claimed): a draft shown with an item of the rendered report, or
\* sent with it by saveItem, was typed on the report of the same file.
C27_DraftsStayWithTheirFile ==
    /\ ItemsRendered
         => \A idx \in 1..Len(Displayed) :
               LET key == itemKey(idx - 1, Displayed[idx])
               IN  key \in DOMAIN draftFile => draftFile[key] = shownFor
    /\ \A req \in saves : req.typed_on = req.shown

(***************************************************************************)
(* Properties of the upload page (SpecData)                                *)
(***************************************************************************)
\* the extension of a file name: what follows its last dot, if it has a dot
HasExtension(file) == Len(file.name) >= 2
LowerExtension(file) == toLowerCase(file.name[Len(file.name)])
AcceptedByClaim(file) ==
    /\ HasExtension(file)
    /\ LowerExtension(file) \in {"xlsx", "xls", "xlsm", "csv", "txt"}
    /\ file.size <= 100 * 1024 * 1024

\* C19 (as claimed): a chosen or dropped file becomes the selected file iff
\* its lower-cased extension is one of .xlsx, .xls, .xlsm, .csv, .txt and its
\* size is at most 100 MB; a rejected file sets a file error and leaves the
\* selected file unchanged.
C19_UploadValidation ==
    [][\A file \in UploadFiles :
         HandleFile(file)
         => IF AcceptedByClaim(file)
            THEN selectedFile' = file /\ fileError' = ""
            ELSE selectedFile' = selectedFile /\ fileError' # ""]_vars

\* C20 (as claimed): while the review of the thresholds has not been
\* confirmed, no processDocument call is made.
C20_ProcessOnlyAfterConfirmation ==
    (~thresholdsReviewed) => processCall = <<>>

\* the same columns in chronological order, with the same value under each
ChronologicalOrder(cols) ==
    SortSeq(cols, LAMBDA a, b : a.year < b.year \/ (a.year = b.year /\ a.month < b.month))

\* a plan with each column index replaced by the label of the column
PlanByLabel(pl, cols) ==
    [fiscal_years |-> pl.fiscal_years,
     incomplete_years |-> pl.incomplete_years,
     month_columns |-> [y \in DOMAIN pl.month_columns |->
                          [i \in 1..Len(pl.month_columns[y]) |->
                              cols[pl.month_columns[y][i]]]]]

\* C22 (as claimed): the plan and the FY and YTD values of every row, the
\* derived prior-year YTD included, are those obtained from the same columns
\* given in chronological order.
C22_ColumnOrderIndependence ==
    (pc = "aggregated")
    => LET sorted == ChronologicalOrder(columns)
           p == CHOOSE q \in RowPatterns : row = RowOf(columns, q)
           pl == detect_fiscal_periods(sorted)
       IN  /\ PlanByLabel(plan, columns) = PlanByLabel(pl, sorted)
           /\ aggregated = aggregate_by_period(RowOf(sorted, p), pl.fiscal_years,
                                               pl.incomplete_years, pl.month_columns)

\* a decimal numeral: digits, optionally a point and more digits
ValidNumeral(text) ==
    LET n == LeadingDigits(text)
        rest == SubSeq(text, n + 1, Len(text))
    IN  /\ n > 0
        /\ \/ rest = <<>>
           \/ /\ Head(rest) = "." /\ Len(rest) > 1
              /\ LeadingDigits(Tail(rest)) = Len(rest) - 1

DocumentedFallback(field) ==
    IF field = "variation_threshold" THEN Num(DefaultThresholdPct)
    ELSE Num(DefaultThresholdAbs)

\* C23 (as claimed): after a threshold input is changed, the threshold is the
\* entered value when the text is a valid number, 0 included, and otherwise
\* the documented fallback (10 for the percentage, 50000 for the absolute
\* threshold).
C23_ThresholdFallbacks ==
    (entered # None)
    => storeConfig[entered.field] =
          (IF ValidNumeral(entered.text) THEN parseFloat(entered.text)
           ELSE DocumentedFallback(entered.field))

\* C25 (as claimed): while success is shown, the selected file is the file
\* whose processDocument request succeeded.
C25_SuccessIsForSelectedFile ==
    success => (selectedFile # None /\ selectedFile = succeededFor)

\* C28: at most one processDocument request is in flight, and a request
\* starts only with a selected file, processing false and success false.
C28_SingleRequestInFlight ==
    [][/\ Len(processCall') <= 1
       /\ (Len(processCall') > Len(processCall))
            => (selectedFile # None /\ ~processing /\ ~success)]_vars

\* a request in flight for a file that has been replaced meanwhile
C28_Witness ==
    /\ Len(processCall) = 1
    /\ processing
    /\ selectedFile # None
    /\ selectedFile # processCall[1]

(***************************************************************************)
(* Priority of the items reported by the gates alone (SpecVar)             *)
(***************************************************************************)
\* C30: a reported item with no override (no focus, no sign anomaly, neither
\* new nor disappeared) has priority Alta or Media, never Baja.
C30_GatesOnlyNeverBaja ==
    (pc = "classified" /\ qa_item.included
        /\ ~FocusHit /\ ~NegativeAsset /\ ~AppearedOrDisappeared)
    => qa_item.priority \in {"Alta", "Media"}

\* an item reported by the three gates alone with priority Media
C30_Witness ==
    /\ pc = "classified" /\ qa_item.included
    /\ ~FocusHit /\ ~NegativeAsset /\ ~AppearedOrDisappeared
    /\ config.threshold_pct > 0
    /\ qa_item.priority = "Media"

(***************************************************************************)
(* Properties of the application start (SpecBoot)                          *)
(***************************************************************************)
\* C29 (as claimed): the loading flag of the store is true while a history
\* request is in flight and false when none is.
C29_LoadingWhileInFlight == appLoading <=> (historyCalls # {})

(***************************************************************************)
(* Properties of the KPI views (SpecKpi)                                   *)
(***************************************************************************)
ActiveProcessed == activeFile # None /\ activeFile.status = "success"

\* the counts of the active file, and the totals over the processed files
OwnCount(field) == IF field \in DOMAIN activeFile THEN activeFile[field] ELSE 0

RECURSIVE SumField(_, _)
SumField(fs, field) ==
    IF fs = <<>> THEN 0
    ELSE (IF Head(fs).status = "success" /\ field \in DOMAIN Head(fs)
          THEN Head(fs)[field] ELSE 0) + SumField(Tail(fs), field)

ExpectedCount(field) ==
    IF ActiveProcessed THEN OwnCount(field) ELSE SumField(files, field)

\* C21 (as claimed): with an active, processed file every displayed count,
\* the priority distribution bar included, is that file's own count, also
\* when it is 0; otherwise it is the total over the processed files.
C21_KpiSource ==
    (displayed # None)
    => /\ displayed.questions = ExpectedCount("questions_generated")
       /\ displayed.high = ExpectedCount("high_priority_count")
       /\ (displayed.page = "dashboard")
            => /\ displayed.medium = ExpectedCount("medium_priority_count")
               /\ displayed.low = ExpectedCount("low_priority_count")
       /\ (displayed.page = "analytics")
            => /\ displayed.mediumLow = ExpectedCount("medium_priority_count")
                                          + ExpectedCount("low_priority_count")
               /\ displayed.barHigh = ExpectedCount("high_priority_count")
               /\ displayed.barMedium = ExpectedCount("medium_priority_count")
               /\ displayed.barLow = ExpectedCount("low_priority_count")

====
